---- MODULE Spec2Model ----
(***************************************************************************)
(* College visit reports: the report composer (createReport), the line     *)
(* renderer of ReportView, and the VisitDetail / NotesList / PhotoGallery  *)
(* handlers that feed them, over a record store.                           *)
(*                                                                         *)
(* Text is a TLA+ string; a JavaScript string method is an operator that   *)
(* computes what the method computes (0-based indices become 1-based       *)
(* only inside SubSeq).                                                    *)
(***************************************************************************)
EXTENDS Naturals, Integers, Sequences, FiniteSets, TLC

VARIABLES
    visit,      \* the Visit shown by VisitDetail (props.visit)
    dbNotes,    \* rows of the store's notes table for the visit, oldest first
    dbPhotos,   \* rows of the store's photos table for the visit, oldest first
    dbReports,  \* rows of the store's reports table for the visit, oldest first
    files,      \* the object store: the names of the files of bucket visit-photos
    nextId,     \* the next row id (and file name) handed out
    loading,    \* VisitDetail.loading
    notes,      \* VisitDetail.notes
    photos,     \* VisitDetail.photos
    report,     \* VisitDetail.report (NoReport for null)
    elements,   \* what ReportView's line renderer shows for report
    activeTab,  \* VisitDetail.activeTab
    editingNote,\* NotesList.editingNote, as the note's id (0 for null)
    alert,      \* the last alert() shown, "" when none
    generating, \* ReportView.generating of the ReportView mounted
    saving,     \* NotesList.saving of the NotesList mounted
    uploading,  \* PhotoGallery.uploading of the PhotoGallery mounted
    pending     \* the store calls awaited, in the order they were issued

vars == <<visit, dbNotes, dbPhotos, dbReports, files, nextId, loading, notes, photos,
          report, elements, activeTab, editingNote, alert, generating, saving,
          uploading, pending>>

\* The state of the tab components that awaited calls come back to.
asyncVars == <<generating, saving, uploading, pending>>

(***************************************************************************)
(* Bounds of the model.                                                    *)
(***************************************************************************)
MaxNotes == 2
MaxPhotos == 2
MaxTextLen == 5
MaxId == 2

NoReport == [id |-> 0, report_content |-> ""]

(***************************************************************************)
(* JavaScript string methods.                                              *)
(***************************************************************************)
CharAt(s, i) == SubSeq(s, i + 1, i + 1)

Min(a, b) == IF a < b THEN a ELSE b

Max(a, b) == IF a > b THEN a ELSE b

\* String.prototype.startsWith(p)
StartsWith(s, p) == Len(s) >= Len(p) /\ SubSeq(s, 1, Len(p)) = p

\* String.prototype.endsWith(p)
EndsWith(s, p) == Len(s) >= Len(p) /\ SubSeq(s, Len(s) - Len(p) + 1, Len(s)) = p

\* String.prototype.substring(start, end): both arguments are clamped to
\* 0..length, and swapped when start > end.
Substring(s, start, end) ==
    LET a == Min(Max(start, 0), Len(s))
        b == Min(Max(end, 0), Len(s))
    IN  SubSeq(s, Min(a, b) + 1, Max(a, b))

\* String.prototype.substring(start)
SubstringFrom(s, start) == Substring(s, start, Len(s))

\* String.prototype.indexOf(sep, from): the 0-based position of the first
\* occurrence of sep at or after from, -1 when there is none.
IndexOf(s, sep, from) ==
    LET last == Len(s) - Len(sep)
        At(i) == SubSeq(s, i + 1, i + Len(sep)) = sep
    IN  IF \E i \in from..last : At(i)
        THEN CHOOSE i \in from..last : At(i) /\ \A j \in from..(i - 1) : ~At(j)
        ELSE -1

\* String.prototype.includes(sep)
Includes(s, sep) == IndexOf(s, sep, 0) # -1

\* String.prototype.split(sep), sep non-empty: the fields between the
\* successive non-overlapping occurrences of sep, left to right.
RECURSIVE SplitFrom(_, _, _)
SplitFrom(s, sep, from) ==
    LET j == IndexOf(s, sep, from)
    IN  IF j = -1 THEN <<Substring(s, from, Len(s))>>
        ELSE <<Substring(s, from, j)>> \o SplitFrom(s, sep, j + Len(sep))

Split(s, sep) == SplitFrom(s, sep, 0)

\* The white space String.prototype.trim() removes, as far as the model's
\* texts hold any.
WhiteSpace == {" ", "\t", "\n", "\r"}

RECURSIVE TrimStart(_)
TrimStart(s) ==
    IF Len(s) > 0 /\ CharAt(s, 0) \in WhiteSpace
    THEN TrimStart(SubstringFrom(s, 1)) ELSE s

RECURSIVE TrimEnd(_)
TrimEnd(s) ==
    IF Len(s) > 0 /\ CharAt(s, Len(s) - 1) \in WhiteSpace
    THEN TrimEnd(Substring(s, 0, Len(s) - 1)) ELSE s

\* A trim that removes nothing.
TrimNothing(s) == s

\* String.prototype.trim()
Trim(s) == TrimEnd(TrimStart(s))

\* Array.prototype.join(sep)
RECURSIVE Join(_, _)
Join(fields, sep) ==
    IF Len(fields) = 0 THEN ""
    ELSE IF Len(fields) = 1 THEN fields[1]
    ELSE fields[1] \o sep \o Join(Tail(fields), sep)

(***************************************************************************)
(* JavaScript objects used as maps (Record<string, Note[]>).  An object is *)
(* the sequence of its own properties [key, value] in the order they were  *)
(* created; a key it does not own is looked up on Object.prototype.        *)
(***************************************************************************)
ObjectPrototypeKeys ==
    {"constructor", "__proto__", "toString", "toLocaleString", "valueOf",
     "hasOwnProperty", "isPrototypeOf", "propertyIsEnumerable",
     "__defineGetter__", "__defineSetter__", "__lookupGetter__",
     "__lookupSetter__"}

HasOwn(obj, key) == \E i \in 1..Len(obj) : obj[i].key = key

\* obj[key] of an own property
Get(obj, key) == obj[CHOOSE i \in 1..Len(obj) : obj[i].key = key].value

\* Whether obj[key] is truthy: an own property here is an array (truthy), an
\* inherited one a function or Object.prototype itself (truthy), anything else
\* is undefined.
Truthy(obj, key) == HasOwn(obj, key) \/ key \in ObjectPrototypeKeys

Digits == <<"0", "1", "2", "3", "4", "5", "6", "7", "8", "9">>

IsDigit(c) == \E i \in 1..10 : Digits[i] = c

DigitValue(c) == (CHOOSE i \in 1..10 : Digits[i] = c) - 1

\* a <= b for two strings of decimal digits of the same length
RECURSIVE DigitsLeq(_, _)
DigitsLeq(a, b) ==
    IF Len(a) = 0 THEN TRUE
    ELSE IF DigitValue(CharAt(a, 0)) # DigitValue(CharAt(b, 0))
    THEN DigitValue(CharAt(a, 0)) < DigitValue(CharAt(b, 0))
    ELSE DigitsLeq(SubstringFrom(a, 1), SubstringFrom(b, 1))

\* a <= b as numbers, for canonical decimal strings (no leading zero)
NumberLeq(a, b) == Len(a) < Len(b) \/ (Len(a) = Len(b) /\ DigitsLeq(a, b))

\* An array index: the canonical decimal string of an integer in 0..2^32-2.
\* Own property keys that are array indices are listed first, in ascending
\* numeric order, whatever the order of their creation.
IsArrayIndex(key) ==
    /\ Len(key) >= 1
    /\ \A i \in 0..(Len(key) - 1) : IsDigit(CharAt(key, i))
    /\ (Len(key) > 1 => CharAt(key, 0) # "0")
    /\ NumberLeq(key, "4294967294")

RECURSIVE SortByIndex(_)
SortByIndex(props) ==
    IF Len(props) = 0 THEN <<>>
    ELSE LET m == CHOOSE i \in 1..Len(props) :
                     \A j \in 1..Len(props) : NumberLeq(props[i].key, props[j].key)
             IsRest(p) == p.key # props[m].key
         IN  <<props[m]>> \o SortByIndex(SelectSeq(props, IsRest))

\* Object.entries(obj) (and, for its keys, Object.keys(obj)): array-index
\* keys ascending, then the other keys in creation order.
ObjectEntries(obj) ==
    LET IsIndex(p) == IsArrayIndex(p.key)
        IsName(p) == ~IsArrayIndex(p.key)
    IN  SortByIndex(SelectSeq(obj, IsIndex)) \o SelectSeq(obj, IsName)

ObjectKeys(obj) == [i \in 1..Len(obj) |-> ObjectEntries(obj)[i].key]

(***************************************************************************)
(* createReport.  The result is [threw, text]: threw when the function     *)
(* ends with a TypeError instead of returning.                             *)
(***************************************************************************)

\* notes.forEach(note => { if (!notesByCategory[c]) notesByCategory[c] = [];
\*                         notesByCategory[c].push(note) })
\* A category that names a member of Object.prototype is found truthy without
\* being an own array, and push is then called on something that has none.
RECURSIVE GroupNotes(_, _)
GroupNotes(noteSeq, acc) ==
    IF Len(noteSeq) = 0 \/ acc.threw THEN acc
    ELSE LET note == Head(noteSeq)
             c == note.category
             obj == acc.obj
         IN  IF ~Truthy(obj, c)
             THEN GroupNotes(Tail(noteSeq),
                      [threw |-> FALSE,
                       obj |-> Append(obj, [key |-> c, value |-> <<note>>])])
             ELSE IF HasOwn(obj, c)
             THEN GroupNotes(Tail(noteSeq),
                      [threw |-> FALSE,
                       obj |-> [i \in 1..Len(obj) |->
                                  IF obj[i].key = c
                                  THEN [key |-> c, value |-> Append(obj[i].value, note)]
                                  ELSE obj[i]]])
             ELSE [threw |-> TRUE, obj |-> obj]

NotesByCategory(noteSeq) == GroupNotes(noteSeq, [threw |-> FALSE, obj |-> <<>>])

categoryTitles ==
    << [key |-> "academics", value |-> "Academic Programs & Quality"],
       [key |-> "campus", value |-> "Campus Life & Culture"],
       [key |-> "facilities", value |-> "Facilities & Resources"],
       [key |-> "location", value |-> "Location & Surroundings"],
       [key |-> "housing", value |-> "Housing & Accommodation"],
       [key |-> "financial", value |-> "Financial Aid & Costs"],
       [key |-> "social", value |-> "Social Environment"],
       [key |-> "general", value |-> "General Observations"] >>

\* The heading of a category without the table: always the raw tag.
CategoryTitleRaw(category) == category

\* categoryTitles[category] || category
CategoryTitle(category) ==
    IF HasOwn(categoryTitles, category) THEN Get(categoryTitles, category)
    ELSE category

MonthNames ==
    <<"January", "February", "March", "April", "May", "June", "July",
      "August", "September", "October", "November", "December">>

\* new Date(d).toLocaleDateString('en-US', {year: 'numeric', month: 'long',
\* day: 'numeric'}).  A date is <<year, month, day>>, or <<>> for a string
\* Date cannot parse.
ToLocaleDateString(d) ==
    IF Len(d) # 3 THEN "Invalid Date"
    ELSE MonthNames[d[2]] \o " " \o ToString(d[3]) \o ", " \o ToString(d[1])

\* PluralS with the test written n > 1: zero counts as one.
PluralWhenMany(n) == IF n > 1 THEN "s" ELSE ""

\* `${n !== 1 ? 's' : ''}`
PluralS(n) == IF n # 1 THEN "s" ELSE ""

\* report += `# College Visit Report: ...`, the visit date, the location when
\* there is one, and the rule.
ReportHeader(v) ==
    "# College Visit Report: " \o v.college_name \o "\n\n"
    \o "**Visit Date:** " \o ToLocaleDateString(v.visit_date) \o "\n\n"
    \o (IF v.location # "" THEN "**Location:** " \o v.location \o "\n\n" ELSE "")
    \o "---\n\n"

ExecutiveSummary(v, photoSeq, noteSeq, obj) ==
    "## Executive Summary\n\n"
    \o "This report documents my visit to " \o v.college_name \o ". "
    \o "During this visit, I took " \o ToString(Len(photoSeq)) \o " photo"
    \o PluralS(Len(photoSeq)) \o " "
    \o "and recorded " \o ToString(Len(noteSeq)) \o " detailed note"
    \o PluralS(Len(noteSeq)) \o " "
    \o "across " \o ToString(Len(ObjectKeys(obj))) \o " different categories.\n\n"

\* categoryNotes.forEach(note => report += `${note.content}\n\n`)
RECURSIVE NoteParagraphs(_)
NoteParagraphs(categoryNotes) ==
    IF Len(categoryNotes) = 0 THEN ""
    ELSE Head(categoryNotes).content \o "\n\n" \o NoteParagraphs(Tail(categoryNotes))

\* Object.entries(notesByCategory).forEach(([category, categoryNotes]) => ...)
RECURSIVE CategorySections(_)
CategorySections(entries) ==
    IF Len(entries) = 0 THEN ""
    ELSE "### " \o CategoryTitle(Head(entries).key) \o "\n\n"
         \o NoteParagraphs(Head(entries).value)
         \o CategorySections(Tail(entries))

DetailedObservations(obj) ==
    IF Len(ObjectKeys(obj)) > 0
    THEN "## Detailed Observations\n\n" \o CategorySections(ObjectEntries(obj))
    ELSE ""

\* A bullet for every photo, captioned or not.
RECURSIVE CaptionBulletsAll(_)
CaptionBulletsAll(photoSeq) ==
    IF Len(photoSeq) = 0 THEN ""
    ELSE "- " \o Head(photoSeq).caption \o "\n" \o CaptionBulletsAll(Tail(photoSeq))

\* photos.forEach(photo => { if (photo.caption) report += `- ${photo.caption}\n` })
RECURSIVE CaptionBullets(_)
CaptionBullets(photoSeq) ==
    IF Len(photoSeq) = 0 THEN ""
    ELSE (IF Head(photoSeq).caption # "" THEN "- " \o Head(photoSeq).caption \o "\n" ELSE "")
         \o CaptionBullets(Tail(photoSeq))

VisualDocumentation(photoSeq) ==
    IF Len(photoSeq) > 0
    THEN "## Visual Documentation\n\n"
         \o "I captured " \o ToString(Len(photoSeq)) \o " photo" \o PluralS(Len(photoSeq))
         \o " during my visit, documenting various aspects of the campus including:\n\n"
         \o CaptionBullets(photoSeq) \o "\n"
    ELSE ""

\* The if (notesByCategory[...]) keyPoints.push(...) statements, in their order.
keyPointTable ==
    << [key |-> "academics",
        value |-> "Academic programs and educational opportunities were evaluated"],
       [key |-> "campus",
        value |-> "Campus culture and student life were observed"],
       [key |-> "facilities",
        value |-> "Campus facilities and resources were examined"],
       [key |-> "location",
        value |-> "Location and surrounding area were assessed"],
       [key |-> "housing",
        value |-> "Housing options and living arrangements were reviewed"],
       [key |-> "financial",
        value |-> "Financial considerations and aid opportunities were discussed"],
       [key |-> "social",
        value |-> "Social environment and community aspects were evaluated"] >>

\* KeyPoints filled while walking the grouping, in the order of its entries.
KeyPointsInGroupingOrder(obj) ==
    LET entries == ObjectEntries(obj)
        Known(e) == HasOwn(keyPointTable, e.key)
        hits == SelectSeq(entries, Known)
    IN  [i \in 1..Len(hits) |-> Get(keyPointTable, hits[i].key)]

KeyPoints(obj) ==
    LET Present(p) == Truthy(obj, p.key)
        hits == SelectSeq(keyPointTable, Present)
    IN  [i \in 1..Len(hits) |-> hits[i].value]

\* keyPoints.forEach(point => report += `- ${point}\n`)
RECURSIVE Bullets(_)
Bullets(points) ==
    IF Len(points) = 0 THEN ""
    ELSE "- " \o Head(points) \o "\n" \o Bullets(Tail(points))

FallbackSentence ==
    "While I didn't record specific notes during this visit, the experience and photos provide valuable documentation for future reference."

TakeawaysIntro ==
    "Based on my observations and notes, here are the main points to consider:"

\* KeyTakeaways without the branch for zero notes.
KeyTakeawaysWithoutFallback(noteSeq, obj) ==
    "## Key Takeaways\n\n"
    \o TakeawaysIntro \o "\n\n" \o Bullets(KeyPoints(obj)) \o "\n"

KeyTakeaways(noteSeq, obj) ==
    "## Key Takeaways\n\n"
    \o (IF Len(noteSeq) = 0
        THEN FallbackSentence \o "\n\n"
        ELSE TakeawaysIntro \o "\n\n" \o Bullets(KeyPoints(obj)) \o "\n")

NextSteps ==
    "## Next Steps\n\n"
    \o "- Review this report alongside other college visit reports\n"
    \o "- Compare academic programs, campus culture, and overall fit\n"
    \o "- Consider revisiting if needed for deeper exploration\n"
    \o "- Discuss findings with family, counselors, and mentors\n"
    \o "- Make informed decisions about college applications\n\n"

\* now: the date new Date() gives when the report is composed
Footer(now) ==
    "---\n\n" \o "*Report generated on " \o ToLocaleDateString(now) \o "*\n"

\* createReport with Next Steps emitted before Key Takeaways.
createReportStepsFirst(v, photoSeq, noteSeq, now) ==
    LET grouped == NotesByCategory(noteSeq)
        obj == grouped.obj
    IN  IF grouped.threw THEN [threw |-> TRUE, text |-> ""]
        ELSE [threw |-> FALSE,
              text |-> ReportHeader(v)
                       \o ExecutiveSummary(v, photoSeq, noteSeq, obj)
                       \o DetailedObservations(obj)
                       \o VisualDocumentation(photoSeq)
                       \o NextSteps
                       \o KeyTakeaways(noteSeq, obj)
                       \o Footer(now)]

createReport(v, photoSeq, noteSeq, now) ==
    LET grouped == NotesByCategory(noteSeq)
        obj == grouped.obj
    IN  IF grouped.threw THEN [threw |-> TRUE, text |-> ""]
        ELSE [threw |-> FALSE,
              text |-> ReportHeader(v)
                       \o ExecutiveSummary(v, photoSeq, noteSeq, obj)
                       \o DetailedObservations(obj)
                       \o VisualDocumentation(photoSeq)
                       \o KeyTakeaways(noteSeq, obj)
                       \o NextSteps
                       \o Footer(now)]

(***************************************************************************)
(* ReportView's line renderer: report.report_content.split('\n').map(...). *)
(* An element is [key, kind, text, runs]; key is the line's index, runs    *)
(* the <span>/<strong> children of a mixed paragraph.                      *)
(***************************************************************************)
Element(index, kind, text) == [key |-> index, kind |-> kind, text |-> text, runs |-> <<>>]

\* Runs with the parity turned: the first field bold.
RunsBoldFirst(parts) ==
    [i \in 1..Len(parts) |-> [bold |-> ((i - 1) % 2 = 0), text |-> parts[i]]]

\* parts.map((part, i) => i % 2 === 0 ? <span>{part}</span> : <strong>{part}</strong>)
Runs(parts) ==
    [i \in 1..Len(parts) |-> [bold |-> ((i - 1) % 2 # 0), text |-> parts[i]]]

\* The rules with the list item tried before the bold and mixed paragraphs.
RenderLineListFirst(line, index) ==
    IF StartsWith(line, "# ") THEN Element(index, "h1", SubstringFrom(line, 2))
    ELSE IF StartsWith(line, "## ") THEN Element(index, "h2", SubstringFrom(line, 3))
    ELSE IF StartsWith(line, "### ") THEN Element(index, "h3", SubstringFrom(line, 4))
    ELSE IF StartsWith(line, "- ") THEN Element(index, "li", SubstringFrom(line, 2))
    ELSE IF StartsWith(line, "**") /\ EndsWith(line, "**")
         THEN Element(index, "bold", Substring(line, 2, Len(line) - 2))
    ELSE IF Includes(line, "**")
         THEN [key |-> index, kind |-> "mixed", text |-> "",
               runs |-> Runs(Split(line, "**"))]
    ELSE IF line = "---" THEN Element(index, "hr", "")
    ELSE IF Trim(line) = "" THEN Element(index, "br", "")
    ELSE Element(index, "p", line)

RenderLine(line, index) ==
    IF StartsWith(line, "# ") THEN Element(index, "h1", SubstringFrom(line, 2))
    ELSE IF StartsWith(line, "## ") THEN Element(index, "h2", SubstringFrom(line, 3))
    ELSE IF StartsWith(line, "### ") THEN Element(index, "h3", SubstringFrom(line, 4))
    ELSE IF StartsWith(line, "**") /\ EndsWith(line, "**")
         THEN Element(index, "bold", Substring(line, 2, Len(line) - 2))
    ELSE IF Includes(line, "**")
         THEN [key |-> index, kind |-> "mixed", text |-> "",
               runs |-> Runs(Split(line, "**"))]
    ELSE IF StartsWith(line, "- ") THEN Element(index, "li", SubstringFrom(line, 2))
    ELSE IF line = "---" THEN Element(index, "hr", "")
    ELSE IF Trim(line) = "" THEN Element(index, "br", "")
    ELSE Element(index, "p", line)

\* Render with the empty lines filtered out before the map.
RenderSkippingBlank(text) ==
    LET Full(l) == l # ""
        lines == SelectSeq(Split(text, "\n"), Full)
    IN  [i \in 1..Len(lines) |-> RenderLine(lines[i], i - 1)]

\* Render carrying state from one line to the next: the line after a rule is
\* always a plain paragraph.
RenderCarrying(text) ==
    LET lines == Split(text, "\n")
    IN  [i \in 1..Len(lines) |->
            IF i > 1 /\ lines[i - 1] = "---" THEN Element(i - 1, "p", lines[i])
            ELSE RenderLine(lines[i], i - 1)]

Render(text) ==
    LET lines == Split(text, "\n")
    IN  [i \in 1..Len(lines) |-> RenderLine(lines[i], i - 1)]

(***************************************************************************)
(* NotesList: the category table of the note form.                         *)
(***************************************************************************)
CATEGORIES ==
    << [value |-> "academics", label |-> "Academics"],
       [value |-> "campus", label |-> "Campus Life"],
       [value |-> "facilities", label |-> "Facilities"],
       [value |-> "location", label |-> "Location"],
       [value |-> "housing", label |-> "Housing"],
       [value |-> "financial", label |-> "Financial Aid"],
       [value |-> "social", label |-> "Social Scene"],
       [value |-> "general", label |-> "General"] >>

CategoryValues == {CATEGORIES[i].value : i \in 1..Len(CATEGORIES)}

(***************************************************************************)
(* The inputs of the model.                                                *)
(***************************************************************************)

\* The visits VisitDetail is opened on.
VisitMIT == [college_name |-> "MIT", visit_date |-> <<2025, 3, 14>>, location |-> ""]

VisitReed ==
    [college_name |-> "Reed College", visit_date |-> <<>>, location |-> "Portland, OR"]

Visits == {VisitMIT, VisitReed}

\* The date new Date() gives while the model runs.
Today == <<2026, 11, 6>>

\* What a user types into the note form: a category of the select, and a
\* content (the blank one is refused by handleSaveNote).
TypedNotes ==
    { [category |-> "academics", content |-> "Small classes"],
      [category |-> "general", content |-> "Bring **warm** clothes"],
      [category |-> "campus", content |-> "   "] }

\* Note rows the store may already hold when the visit is opened.  The column
\* is text: a row written by another client may carry any category.
StoredNotes ==
    { [category |-> "academics", content |-> "Great labs"],
      [category |-> "campus", content |-> "Lively quad\n# Clubs"],
      [category |-> "general", content |-> "Rainy day"],
      [category |-> "7", content |-> "Room 7"],
      [category |-> "constructor", content |-> "Cranes"] }

\* Captions typed into the upload dialog.
Captions == {"", "Main quad", "Library"}

Reverse(seq) == [i \in 1..Len(seq) |-> seq[Len(seq) + 1 - i]]

SeqsUpTo(S, n) == UNION {[1..k -> S] : k \in 0..n}

\* The alphabet and the texts of stored reports the renderer is run on.
Alphabet == {"#", "*", "-", " ", "a", "\n"}

RECURSIVE Texts(_)
Texts(n) ==
    IF n = 0 THEN {""}
    ELSE LET shorter == Texts(n - 1)
         IN  shorter \cup {t \o c : t \in shorter, c \in Alphabet}

ComposedTexts ==
    { createReport(v, [i \in 1..Len(ps) |-> [id |-> i, photo_url |-> i, caption |-> ps[i]]],
                   [i \in 1..Len(ns) |-> [id |-> i, category |-> ns[i].category,
                                          content |-> ns[i].content]],
                   Today).text :
        v \in Visits, ps \in SeqsUpTo(Captions, 1),
        ns \in SeqsUpTo(TypedNotes \cup {n \in StoredNotes : n.category # "constructor"}, 1) }

StoredTexts ==
    Texts(MaxTextLen) \cup ComposedTexts
    \cup {"a **b** c", "**bold**", "- a **b", "\t", "## a **b**", "**a** and **b**"}

\* No handler is awaiting a store call: every busy flag is as useState(false)
\* made it.
Idle ==
    /\ generating = FALSE
    /\ saving = FALSE
    /\ uploading = FALSE
    /\ pending = <<>>

(***************************************************************************)
(* The state after VisitDetail is mounted on a visit: nothing loaded yet.  *)
(***************************************************************************)
Mounted ==
    /\ loading = TRUE
    /\ notes = <<>>
    /\ photos = <<>>
    /\ report = NoReport
    /\ elements = <<>>
    /\ activeTab = "photos"
    /\ editingNote = 0
    /\ alert = ""
    /\ Idle

\* The store holding note rows ns and photo rows with captions ps of the
\* visit, and no report yet.
StoreHolds(ns, ps) ==
    /\ dbNotes = [i \in 1..Len(ns) |->
                    [id |-> i, category |-> ns[i].category, content |-> ns[i].content]]
    /\ dbPhotos = [i \in 1..Len(ps) |->
                     [id |-> Len(ns) + i, photo_url |-> Len(ns) + i, caption |-> ps[i]]]
    /\ files = {Len(ns) + i : i \in 1..Len(ps)}
    /\ nextId = Len(ns) + Len(ps) + 1
    /\ dbReports = <<>>

\* A visit opened with at most one note and one photo in the store.
Init ==
    /\ visit = VisitReed
    /\ Mounted
    /\ \E ns \in SeqsUpTo({n \in StoredNotes : n.category = "campus"}, 1),
          ps \in SeqsUpTo({c \in Captions : c # ""}, 1) : StoreHolds(ns, ps)

\* The inputs of createReport: any visit, opened and loaded, with any notes
\* and photos in the store (rows of ids 1..MaxId) and, newest first, in the
\* props of ReportView.
InitCompose ==
    /\ visit \in Visits
    /\ \E ns \in SeqsUpTo(StoredNotes, MaxNotes), ps \in SeqsUpTo(Captions, MaxPhotos) :
        /\ Len(ns) + Len(ps) <= MaxId
        /\ StoreHolds(ns, ps)
        /\ notes = Reverse(dbNotes)
        /\ photos = Reverse(dbPhotos)
    /\ loading = FALSE
    /\ report = NoReport
    /\ elements = <<>>
    /\ activeTab = "photos"
    /\ editingNote = 0
    /\ alert = ""
    /\ Idle

\* A visit whose report was stored earlier, by this or another composer.
InitStored ==
    /\ visit = VisitMIT
    /\ Mounted
    /\ dbNotes = <<>>
    /\ dbPhotos = <<>>
    /\ files = {}
    /\ \E t \in StoredTexts : dbReports = <<[id |-> 1, report_content |-> t]>>
    /\ nextId = 2

(***************************************************************************)
(* VisitDetail                                                             *)
(***************************************************************************)

\* What ReportView shows for a report: nothing to render while there is none.
View(r) == IF r = NoReport THEN <<>> ELSE Render(r.report_content)

\* loadVisitData: three selects, newest first; a select that fails leaves
\* data null and the state as it was.
loadVisitData ==
    /\ loading
    /\ \E okPhotos \in BOOLEAN, okNotes \in BOOLEAN, okReports \in BOOLEAN :
        /\ photos' = IF okPhotos THEN Reverse(dbPhotos) ELSE photos
        /\ notes' = IF okNotes THEN Reverse(dbNotes) ELSE notes
        /\ report' = IF okReports /\ Len(dbReports) > 0
                     THEN dbReports[Len(dbReports)] ELSE report
    /\ elements' = View(report')
    /\ loading' = FALSE
    /\ UNCHANGED <<visit, dbNotes, dbPhotos, dbReports, files, nextId, activeTab,
                   editingNote, alert>>
    /\ UNCHANGED asyncVars

Tabs == {"photos", "notes", "report"}

\* The calls awaited, once the component that issued them is unmounted.
Unmounted(calls) == [i \in 1..Len(calls) |-> [calls[i] EXCEPT !.live = FALSE]]

\* setActiveTab(tab): the component of the tab left is unmounted and the
\* tab's component is mounted afresh, so NotesList starts again with
\* editingNote null and every busy flag is false again.
setActiveTab(tab) ==
    /\ tab # activeTab
    /\ activeTab' = tab
    /\ editingNote' = 0
    /\ alert' = ""
    /\ generating' = FALSE
    /\ saving' = FALSE
    /\ uploading' = FALSE
    /\ pending' = Unmounted(pending)
    /\ UNCHANGED <<visit, dbNotes, dbPhotos, dbReports, files, nextId, loading, notes,
                   photos, report, elements>>

Without(rows, id) == LET Other(r) == r.id # id IN SelectSeq(rows, Other)

HasRow(rows, id) == \E i \in 1..Len(rows) : rows[i].id = id

handlePhotoAdded(photo) == <<photo>> \o photos

handlePhotoDeleted(photoId) == Without(photos, photoId)

handleNoteAdded(note) == <<note>> \o notes

handleNoteDeleted(noteId) == Without(notes, noteId)

(***************************************************************************)
(* NotesList (shown on the notes tab, once loaded)                         *)
(***************************************************************************)

\* handleSaveNote with the form holding typed: an update of the note being
\* edited, or else an insert followed by onNoteAdded.  ok is whether the
\* store call succeeds; an update of a row that is gone fails (.single()).
handleSaveNote(typed, ok) ==
    /\ ~loading /\ activeTab = "notes"
    /\ Trim(typed.content) # ""
    /\ IF editingNote # 0
       THEN IF ok /\ HasRow(dbNotes, editingNote)
            THEN /\ dbNotes' = [i \in 1..Len(dbNotes) |->
                                  IF dbNotes[i].id = editingNote
                                  THEN [id |-> editingNote, category |-> typed.category,
                                        content |-> typed.content]
                                  ELSE dbNotes[i]]
                 /\ editingNote' = 0
                 /\ alert' = ""
                 /\ UNCHANGED <<nextId, notes>>
            ELSE /\ alert' = "Failed to save note"
                 /\ UNCHANGED <<dbNotes, nextId, notes, editingNote>>
       ELSE IF ok
            THEN LET row == [id |-> nextId, category |-> typed.category,
                             content |-> typed.content]
                 IN  /\ Len(dbNotes) < MaxNotes /\ nextId <= MaxId
                     /\ dbNotes' = Append(dbNotes, row)
                     /\ nextId' = nextId + 1
                     /\ notes' = handleNoteAdded(row)
                     /\ alert' = ""
                     /\ UNCHANGED editingNote
            ELSE /\ alert' = "Failed to save note"
                 /\ UNCHANGED <<dbNotes, nextId, notes, editingNote>>
    /\ UNCHANGED <<visit, dbPhotos, dbReports, files, loading, photos, report, elements,
                   activeTab>>
    /\ UNCHANGED asyncVars

\* handleEditNote(note), for a note of the list shown
handleEditNote(noteId) ==
    /\ ~loading /\ activeTab = "notes"
    /\ HasRow(notes, noteId)
    /\ editingNote # noteId
    /\ editingNote' = noteId
    /\ alert' = ""
    /\ UNCHANGED <<visit, dbNotes, dbPhotos, dbReports, files, nextId, loading, notes,
                   photos, report, elements, activeTab>>
    /\ UNCHANGED asyncVars

cancelEdit ==
    /\ ~loading /\ activeTab = "notes"
    /\ editingNote # 0
    /\ editingNote' = 0
    /\ alert' = ""
    /\ UNCHANGED <<visit, dbNotes, dbPhotos, dbReports, files, nextId, loading, notes,
                   photos, report, elements, activeTab>>
    /\ UNCHANGED asyncVars

\* handleDeleteNote(noteId), confirmed by the user.  A delete that matches no
\* row is no error.
handleDeleteNote(noteId, ok) ==
    /\ ~loading /\ activeTab = "notes"
    /\ HasRow(notes, noteId)
    /\ IF ok
       THEN /\ dbNotes' = Without(dbNotes, noteId)
            /\ notes' = handleNoteDeleted(noteId)
            /\ alert' = ""
       ELSE /\ alert' = "Failed to delete note"
            /\ UNCHANGED <<dbNotes, notes>>
    /\ UNCHANGED <<visit, dbPhotos, dbReports, files, nextId, loading, photos, report,
                   elements, activeTab, editingNote>>
    /\ UNCHANGED asyncVars

(***************************************************************************)
(* PhotoGallery (shown on the photos tab, once loaded)                     *)
(***************************************************************************)
UploadErrors == {"none", "not found", "other"}

\* handleUpload with an image selected and caption typed.  first is the error
\* of the first upload; bucketOk and retryOk, read only after "not found", are
\* whether createBucket and the second upload succeed; insertOk whether the
\* insert of the photo row succeeds.  The file is named by the clock.
handleUpload(caption, first, bucketOk, retryOk, insertOk) ==
    /\ ~loading /\ activeTab = "photos"
    /\ Len(dbPhotos) < MaxPhotos /\ nextId <= MaxId
    /\ LET fileName == nextId
           uploaded == first = "none" \/ (first = "not found" /\ bucketOk /\ retryOk)
           row == [id |-> nextId, photo_url |-> fileName, caption |-> caption]
       IN  IF first = "other"
           THEN /\ alert' = "Failed to upload photo"
                /\ UNCHANGED <<dbPhotos, files, nextId, photos>>
           ELSE /\ files' = IF uploaded THEN files \cup {fileName} ELSE files
                /\ nextId' = nextId + 1
                /\ IF insertOk
                   THEN /\ dbPhotos' = Append(dbPhotos, row)
                        /\ photos' = handlePhotoAdded(row)
                        /\ alert' = ""
                   ELSE /\ alert' = "Failed to upload photo"
                        /\ UNCHANGED <<dbPhotos, photos>>
    /\ UNCHANGED <<visit, dbNotes, dbReports, loading, notes, report, elements,
                   activeTab, editingNote>>
    /\ UNCHANGED asyncVars

\* handleDeletePhoto(photoId), confirmed by the user: the row is deleted, the
\* file stays.
handleDeletePhoto(photoId, ok) ==
    /\ ~loading /\ activeTab = "photos"
    /\ HasRow(photos, photoId)
    /\ IF ok
       THEN /\ dbPhotos' = Without(dbPhotos, photoId)
            /\ photos' = handlePhotoDeleted(photoId)
            /\ alert' = ""
       ELSE /\ alert' = "Failed to delete photo"
            /\ UNCHANGED <<dbPhotos, photos>>
    /\ UNCHANGED <<visit, dbNotes, dbReports, files, nextId, loading, notes, report,
                   elements, activeTab, editingNote>>
    /\ UNCHANGED asyncVars

(***************************************************************************)
(* ReportView (shown on the report tab, once loaded)                       *)
(***************************************************************************)

\* The Generate Report panel shown whatever the report.
OffersGenerateAlways(r) == TRUE

\* if (!report): the Generate Report panel is rendered in place of the report.
OffersGenerate(r) == r = NoReport

\* generateReport, offered while there is no report: compose from the props,
\* insert, hand the row to handleReportGenerated.  A TypeError of createReport
\* and a failed insert both end in the catch.
generateReport(ok) ==
    /\ ~loading /\ activeTab = "report"
    /\ OffersGenerate(report)
    /\ ~generating
    /\ LET composed == createReport(visit, photos, notes, Today)
           row == [id |-> nextId, report_content |-> composed.text]
       IN  IF ~composed.threw /\ ok
           THEN /\ dbReports' = Append(dbReports, row)
                /\ nextId' = nextId + 1
                /\ report' = row
                /\ elements' = View(row)
                /\ alert' = ""
           ELSE /\ alert' = "Failed to generate report"
                /\ UNCHANGED <<dbReports, nextId, report, elements>>
    /\ UNCHANGED <<visit, dbNotes, dbPhotos, files, loading, notes, photos,
                   activeTab, editingNote>>
    /\ UNCHANGED asyncVars

(***************************************************************************)
(* The handlers as they run: each is an async function that issues its     *)
(* store call, is suspended at the await while any other handler may run,  *)
(* and is resumed with the answer.  The store runs a call at some moment   *)
(* between the two, and answers come back in any order.  A call awaited is *)
(* a record: the handler (op), the row id it names, the row it carries or  *)
(* got back, the list its onAdded / onDeleted callback closed over (seen), *)
(* whether the component that issued it is still mounted (live), whether   *)
(* the store has run it (done) and with what outcome (ok).                 *)
(***************************************************************************)
MaxPending == 2

NoRow == [id |-> 0]

Call(op, id, row, seen) ==
    [op |-> op, id |-> id, row |-> row, seen |-> seen, live |-> TRUE, done |-> FALSE,
     ok |-> FALSE]

Remove(calls, i) == SubSeq(calls, 1, i - 1) \o SubSeq(calls, i + 1, Len(calls))

Awaits(i, op) == i \in 1..Len(pending) /\ pending[i].op = op /\ ~pending[i].done

Answered(i, op) == i \in 1..Len(pending) /\ pending[i].op = op /\ pending[i].done

Ran(i, ok, row) == [pending EXCEPT ![i].done = TRUE, ![i].ok = ok, ![i].row = row]

\* The inserts of note and photo rows issued and not yet run by the store.
Inserting ==
    Cardinality({i \in 1..Len(pending) :
                    /\ ~pending[i].done
                    /\ \/ pending[i].op = "upload"
                       \/ pending[i].op = "save" /\ pending[i].id = 0})

\* A finally that leaves the busy flag as it is.
FinallySkipped(flag, call) == flag

\* finally { setGenerating(false) } (setSaving, setUploading): the flag of the
\* component that issued the call, which is gone once it is unmounted.
Finally(flag, call) == IF call.live THEN FALSE ELSE flag

(***************************************************************************)
(* ReportView.generateReport                                               *)
(***************************************************************************)

\* The click on Generate Report, up to the await: createReport runs on the
\* props, and a TypeError of it ends in the catch before any call is issued
\* (setGenerating(true) and the finally's setGenerating(false) in one batch).
generateReportStart ==
    /\ ~loading /\ activeTab = "report"
    /\ OffersGenerate(report)
    /\ ~generating
    /\ Len(pending) < MaxPending
    /\ LET composed == createReport(visit, photos, notes, Today)
       IN  IF composed.threw
           THEN /\ alert' = "Failed to generate report"
                /\ UNCHANGED <<generating, pending>>
           ELSE /\ generating' = TRUE
                /\ pending' = Append(pending,
                                     Call("generate", 0,
                                          [id |-> 0, report_content |-> composed.text],
                                          <<>>))
                /\ alert' = ""
    /\ UNCHANGED <<visit, dbNotes, dbPhotos, dbReports, files, nextId, loading, notes,
                   photos, report, elements, activeTab, editingNote, saving, uploading>>

\* The store runs the insert of the report row.
reportsInsert(i, ok) ==
    /\ Awaits(i, "generate")
    /\ LET row == [id |-> nextId, report_content |-> pending[i].row.report_content]
       IN  IF ok
           THEN /\ dbReports' = Append(dbReports, row)
                /\ nextId' = nextId + 1
                /\ pending' = Ran(i, TRUE, row)
           ELSE /\ pending' = Ran(i, FALSE, pending[i].row)
                /\ UNCHANGED <<dbReports, nextId>>
    /\ UNCHANGED <<visit, dbNotes, dbPhotos, files, loading, notes, photos, report,
                   elements, activeTab, editingNote, alert, generating, saving,
                   uploading>>

\* generateReport resumed with the answer: handleReportGenerated (setReport
\* and setActiveTab('report'), which unmounts the component of another tab),
\* or the catch; then the finally, setGenerating(false) of the ReportView that
\* issued the call, which does nothing once it is unmounted.
generateReportResume(i) ==
    /\ Answered(i, "generate")
    /\ LET call == pending[i]
           rest == Remove(pending, i)
           back == call.ok /\ activeTab # "report"
       IN  /\ IF call.ok
              THEN /\ report' = call.row
                   /\ elements' = View(call.row)
                   /\ activeTab' = "report"
                   /\ alert' = ""
              ELSE /\ alert' = "Failed to generate report"
                   /\ UNCHANGED <<report, elements, activeTab>>
           /\ editingNote' = IF back THEN 0 ELSE editingNote
           /\ saving' = IF back THEN FALSE ELSE saving
           /\ uploading' = IF back THEN FALSE ELSE uploading
           /\ generating' = Finally(generating, call)
           /\ pending' = IF back THEN Unmounted(rest) ELSE rest
    /\ UNCHANGED <<visit, dbNotes, dbPhotos, dbReports, files, nextId, loading, notes,
                   photos>>

(***************************************************************************)
(* NotesList.handleSaveNote and handleDeleteNote                           *)
(***************************************************************************)

\* The click on Save Note, up to the await: an update of the note being
\* edited or an insert.  onNoteAdded is the handleNoteAdded of the render
\* shown, which closed over the notes of that render.
handleSaveNoteStart(typed) ==
    /\ ~loading /\ activeTab = "notes"
    /\ Trim(typed.content) # ""
    /\ ~saving
    /\ Len(pending) < MaxPending
    /\ editingNote = 0 => nextId + Inserting <= MaxId
    /\ saving' = TRUE
    /\ pending' = Append(pending,
                         Call("save", editingNote,
                              [id |-> 0, category |-> typed.category,
                               content |-> typed.content],
                              notes))
    /\ alert' = ""
    /\ UNCHANGED <<visit, dbNotes, dbPhotos, dbReports, files, nextId, loading, notes,
                   photos, report, elements, activeTab, editingNote, generating,
                   uploading>>

\* The store runs the update or the insert of the note row; an update of a
\* row that is gone fails (.single()).
notesWrite(i, ok) ==
    /\ Awaits(i, "save")
    /\ LET call == pending[i]
           row == [call.row EXCEPT !.id = IF call.id # 0 THEN call.id ELSE nextId]
       IN  IF ok /\ (call.id # 0 => HasRow(dbNotes, call.id))
           THEN /\ dbNotes' = IF call.id # 0
                              THEN [k \in 1..Len(dbNotes) |->
                                      IF dbNotes[k].id = call.id THEN row ELSE dbNotes[k]]
                              ELSE Append(dbNotes, row)
                /\ nextId' = IF call.id # 0 THEN nextId ELSE nextId + 1
                /\ pending' = Ran(i, TRUE, row)
           ELSE /\ pending' = Ran(i, FALSE, call.row)
                /\ UNCHANGED <<dbNotes, nextId>>
    /\ UNCHANGED <<visit, dbPhotos, dbReports, files, loading, notes, photos, report,
                   elements, activeTab, editingNote, alert, generating, saving,
                   uploading>>

\* handleSaveNote resumed with the answer: setEditingNote(null) after an
\* update, onNoteAdded(data) after an insert, or the catch; then the finally.
handleSaveNoteResume(i) ==
    /\ Answered(i, "save")
    /\ LET call == pending[i]
       IN  /\ IF call.ok
              THEN /\ notes' = IF call.id # 0 THEN notes ELSE <<call.row>> \o call.seen
                   /\ editingNote' = IF call.id # 0 /\ call.live THEN 0 ELSE editingNote
                   /\ alert' = ""
              ELSE /\ alert' = "Failed to save note"
                   /\ UNCHANGED <<notes, editingNote>>
           /\ saving' = Finally(saving, call)
           /\ pending' = Remove(pending, i)
    /\ UNCHANGED <<visit, dbNotes, dbPhotos, dbReports, files, nextId, loading, photos,
                   report, elements, activeTab, generating, uploading>>

\* The click on a note's delete, confirmed, up to the await.  No flag guards
\* it; onNoteDeleted closed over the notes of the render shown.
handleDeleteNoteStart(noteId) ==
    /\ ~loading /\ activeTab = "notes"
    /\ HasRow(notes, noteId)
    /\ Len(pending) < MaxPending
    /\ pending' = Append(pending, Call("deleteNote", noteId, NoRow, notes))
    /\ alert' = ""
    /\ UNCHANGED <<visit, dbNotes, dbPhotos, dbReports, files, nextId, loading, notes,
                   photos, report, elements, activeTab, editingNote, generating, saving,
                   uploading>>

\* The store runs the delete; a delete that matches no row is no error.
notesDelete(i, ok) ==
    /\ Awaits(i, "deleteNote")
    /\ dbNotes' = IF ok THEN Without(dbNotes, pending[i].id) ELSE dbNotes
    /\ pending' = Ran(i, ok, NoRow)
    /\ UNCHANGED <<visit, dbPhotos, dbReports, files, nextId, loading, notes, photos,
                   report, elements, activeTab, editingNote, alert, generating, saving,
                   uploading>>

\* handleDeleteNote resumed with the answer: onNoteDeleted(noteId), that is
\* setNotes(notes.filter(...)) on the notes closed over, or the catch.
handleDeleteNoteResume(i) ==
    /\ Answered(i, "deleteNote")
    /\ LET call == pending[i]
       IN  IF call.ok
           THEN /\ notes' = Without(call.seen, call.id)
                /\ alert' = ""
           ELSE /\ alert' = "Failed to delete note"
                /\ UNCHANGED notes
    /\ pending' = Remove(pending, i)
    /\ UNCHANGED <<visit, dbNotes, dbPhotos, dbReports, files, nextId, loading, photos,
                   report, elements, activeTab, editingNote, generating, saving,
                   uploading>>

(***************************************************************************)
(* PhotoGallery.handleUpload and handleDeletePhoto                         *)
(***************************************************************************)

\* The click on Upload with an image selected and caption typed, up to the
\* first await.
handleUploadStart(caption) ==
    /\ ~loading /\ activeTab = "photos"
    /\ ~uploading
    /\ Len(pending) < MaxPending
    /\ nextId + Inserting <= MaxId
    /\ uploading' = TRUE
    /\ pending' = Append(pending,
                         Call("upload", 0, [id |-> 0, photo_url |-> 0, caption |-> caption],
                              photos))
    /\ alert' = ""
    /\ UNCHANGED <<visit, dbNotes, dbPhotos, dbReports, files, nextId, loading, notes,
                   photos, report, elements, activeTab, editingNote, generating, saving>>

\* The object store and the store run the calls of handleUpload: the upload,
\* after "not found" createBucket and the second upload, then the insert of
\* the photo row unless the first upload failed otherwise.
photosUpload(i, first, bucketOk, retryOk, insertOk) ==
    /\ Awaits(i, "upload")
    /\ LET fileName == nextId
           uploaded == first = "none" \/ (first = "not found" /\ bucketOk /\ retryOk)
           row == [id |-> nextId, photo_url |-> fileName,
                   caption |-> pending[i].row.caption]
       IN  IF first = "other"
           THEN /\ pending' = Ran(i, FALSE, pending[i].row)
                /\ UNCHANGED <<dbPhotos, files, nextId>>
           ELSE /\ files' = IF uploaded THEN files \cup {fileName} ELSE files
                /\ nextId' = nextId + 1
                /\ dbPhotos' = IF insertOk THEN Append(dbPhotos, row) ELSE dbPhotos
                /\ pending' = Ran(i, insertOk, IF insertOk THEN row ELSE pending[i].row)
    /\ UNCHANGED <<visit, dbNotes, dbReports, loading, notes, photos, report, elements,
                   activeTab, editingNote, alert, generating, saving, uploading>>

\* handleUpload resumed with the answer of the insert, or in the catch; then
\* the finally.
handleUploadResume(i) ==
    /\ Answered(i, "upload")
    /\ LET call == pending[i]
       IN  /\ IF call.ok
              THEN /\ photos' = <<call.row>> \o call.seen
                   /\ alert' = ""
              ELSE /\ alert' = "Failed to upload photo"
                   /\ UNCHANGED photos
           /\ uploading' = Finally(uploading, call)
           /\ pending' = Remove(pending, i)
    /\ UNCHANGED <<visit, dbNotes, dbPhotos, dbReports, files, nextId, loading, notes,
                   report, elements, activeTab, editingNote, generating, saving>>

\* The click on a photo's delete, confirmed, up to the await.
handleDeletePhotoStart(photoId) ==
    /\ ~loading /\ activeTab = "photos"
    /\ HasRow(photos, photoId)
    /\ Len(pending) < MaxPending
    /\ pending' = Append(pending, Call("deletePhoto", photoId, NoRow, photos))
    /\ alert' = ""
    /\ UNCHANGED <<visit, dbNotes, dbPhotos, dbReports, files, nextId, loading, notes,
                   photos, report, elements, activeTab, editingNote, generating, saving,
                   uploading>>

\* The store runs the delete of the photo row; the file stays.
photosDelete(i, ok) ==
    /\ Awaits(i, "deletePhoto")
    /\ dbPhotos' = IF ok THEN Without(dbPhotos, pending[i].id) ELSE dbPhotos
    /\ pending' = Ran(i, ok, NoRow)
    /\ UNCHANGED <<visit, dbNotes, dbReports, files, nextId, loading, notes, photos,
                   report, elements, activeTab, editingNote, alert, generating, saving,
                   uploading>>

\* handleDeletePhoto resumed with the answer: onPhotoDeleted(photoId) on the
\* photos closed over, or the catch.
handleDeletePhotoResume(i) ==
    /\ Answered(i, "deletePhoto")
    /\ LET call == pending[i]
       IN  IF call.ok
           THEN /\ photos' = Without(call.seen, call.id)
                /\ alert' = ""
           ELSE /\ alert' = "Failed to delete photo"
                /\ UNCHANGED photos
    /\ pending' = Remove(pending, i)
    /\ UNCHANGED <<visit, dbNotes, dbPhotos, dbReports, files, nextId, loading, notes,
                   report, elements, activeTab, editingNote, generating, saving,
                   uploading>>

Next ==
    \/ loadVisitData
    \/ \E tab \in Tabs : setActiveTab(tab)
    \/ \E typed \in TypedNotes, ok \in BOOLEAN : handleSaveNote(typed, ok)
    \/ \E id \in 1..MaxId : handleEditNote(id)
    \/ cancelEdit
    \/ \E id \in 1..MaxId, ok \in BOOLEAN : handleDeleteNote(id, ok)
    \/ \E caption \in Captions, first \in UploadErrors, bucketOk \in BOOLEAN,
          retryOk \in BOOLEAN, insertOk \in BOOLEAN :
            handleUpload(caption, first, bucketOk, retryOk, insertOk)
    \/ \E id \in 1..MaxId, ok \in BOOLEAN : handleDeletePhoto(id, ok)
    \/ \E ok \in BOOLEAN : generateReport(ok)

Spec == Init /\ [][Next]_vars

\* createReport on the inputs of InitCompose: the report tab is chosen and
\* the report generated.
NextCompose ==
    \/ setActiveTab("report")
    \/ \E ok \in BOOLEAN : generateReport(ok)

ComposeSpec == InitCompose /\ [][NextCompose]_vars

\* The renderer on stored reports: the visit is opened and its report shown.
NextStored == loadVisitData

RenderSpec == InitStored /\ [][NextStored]_vars

\* The indices of the calls awaited, and the ids of the rows shown.
Calls == 1..MaxPending

RowIds == 1..(MaxId + MaxPending)

TypedAsync == {[category |-> "academics", content |-> "Labs"]}

CaptionsAsync == {"Library"}

\* ReportView as it runs, on the visit of Init: the clicks, the store running
\* the inserts awaited, and generateReport resumed, in any order.
NextGenerate ==
    \/ loadVisitData
    \/ \E tab \in Tabs : setActiveTab(tab)
    \/ generateReportStart
    \/ \E i \in Calls, ok \in BOOLEAN : reportsInsert(i, ok)
    \/ \E i \in Calls : generateReportResume(i)

GenerateSpec == Init /\ [][NextGenerate]_vars

\* A visit opened and loaded, with the rows of ids 1..MaxId in the store and,
\* newest first, in the lists of VisitDetail.
InitOverlap ==
    /\ visit = VisitReed
    /\ \E ns \in SeqsUpTo({n \in StoredNotes : n.category \in {"campus", "general"}},
                          MaxNotes),
          ps \in SeqsUpTo(CaptionsAsync, MaxPhotos) :
        /\ Len(ns) + Len(ps) <= MaxId
        /\ StoreHolds(ns, ps)
        /\ notes = Reverse(dbNotes)
        /\ photos = Reverse(dbPhotos)
    /\ loading = FALSE
    /\ report = NoReport
    /\ elements = <<>>
    /\ activeTab \in {"photos", "notes"}
    /\ editingNote = 0
    /\ alert = ""
    /\ Idle

\* NotesList and PhotoGallery as they run, every store call succeeding: adds
\* and deletes of notes and photos, overlapping in any way.
NextOverlap ==
    \/ \E tab \in {"photos", "notes"} : setActiveTab(tab)
    \/ \E typed \in TypedAsync : handleSaveNoteStart(typed)
    \/ \E i \in Calls : notesWrite(i, TRUE)
    \/ \E i \in Calls : handleSaveNoteResume(i)
    \/ \E id \in RowIds : handleDeleteNoteStart(id)
    \/ \E i \in Calls : notesDelete(i, TRUE)
    \/ \E i \in Calls : handleDeleteNoteResume(i)
    \/ \E caption \in CaptionsAsync : handleUploadStart(caption)
    \/ \E i \in Calls, first \in {"none", "not found"}, bucketOk \in BOOLEAN,
          retryOk \in BOOLEAN : photosUpload(i, first, bucketOk, retryOk, TRUE)
    \/ \E i \in Calls : handleUploadResume(i)
    \/ \E id \in RowIds : handleDeletePhotoStart(id)
    \/ \E i \in Calls : photosDelete(i, TRUE)
    \/ \E i \in Calls : handleDeletePhotoResume(i)

OverlapSpec == InitOverlap /\ [][NextOverlap]_vars

\* The three handlers that hold a busy flag as they run, with every outcome
\* of their store calls.
NextBusy ==
    \/ loadVisitData
    \/ \E tab \in Tabs : setActiveTab(tab)
    \/ generateReportStart
    \/ \E i \in Calls, ok \in BOOLEAN : reportsInsert(i, ok)
    \/ \E i \in Calls : generateReportResume(i)
    \/ \E typed \in TypedAsync : handleSaveNoteStart(typed)
    \/ \E i \in Calls, ok \in BOOLEAN : notesWrite(i, ok)
    \/ \E i \in Calls : handleSaveNoteResume(i)
    \/ \E caption \in CaptionsAsync : handleUploadStart(caption)
    \/ \E i \in Calls, first \in UploadErrors, bucketOk \in BOOLEAN,
          retryOk \in BOOLEAN, insertOk \in BOOLEAN :
            photosUpload(i, first, bucketOk, retryOk, insertOk)
    \/ \E i \in Calls : handleUploadResume(i)

\* The store runs a call awaited by one of the three handlers.
StoreRuns ==
    \/ \E i \in Calls, ok \in BOOLEAN : reportsInsert(i, ok)
    \/ \E i \in Calls, ok \in BOOLEAN : notesWrite(i, ok)
    \/ \E i \in Calls, first \in UploadErrors, bucketOk \in BOOLEAN,
          retryOk \in BOOLEAN, insertOk \in BOOLEAN :
            photosUpload(i, first, bucketOk, retryOk, insertOk)

\* A handler is resumed with the answer of its call.
Resumes == \E i \in Calls : handleSaveNoteResume(i) \/ handleUploadResume(i)

GenerateResumes == \E i \in Calls : generateReportResume(i)

GenerateAnswered == \E i \in Calls : Answered(i, "generate")

\* Every call awaited resolves: the store runs it and the handler is resumed
\* with the answer.  The last condition is WF_vars(GenerateResumes) with its
\* ENABLED written out: generateReportResume(i) can be taken, and changes
\* pending, exactly when call i is an answered insert of a report.
Resolves ==
    /\ WF_vars(StoreRuns)
    /\ WF_vars(Resumes)
    /\ ([]<>(~GenerateAnswered) \/ []<><<GenerateResumes>>_vars)

\* A visit opened with one photo in the store.
InitBusy ==
    /\ visit = VisitReed
    /\ Mounted
    /\ StoreHolds(<<>>, <<"Library">>)

ResolvingSpec == InitBusy /\ [][NextBusy]_vars /\ Resolves

(***************************************************************************)
(* Reading a composed document back, for the properties below.             *)
(***************************************************************************)
Lines(text) == Split(text, "\n")

NonBlank(lines) == LET Full(l) == l # "" IN SelectSeq(lines, Full)

\* The position of the first line equal to l, 0 when there is none.
LineIndex(lines, l) ==
    IF \E i \in 1..Len(lines) : lines[i] = l
    THEN CHOOSE i \in 1..Len(lines) :
             lines[i] = l /\ \A j \in 1..(i - 1) : lines[j] # l
    ELSE 0

\* The lines under the section heading, up to the next "## " heading or to the
\* footer rule; <<>> when the document has no such heading.
Section(lines, heading) ==
    LET h == LineIndex(lines, heading)
        Ends(i) == StartsWith(lines[i], "## ") \/ lines[i] = "---"
        stop == IF \E i \in (h + 1)..Len(lines) : Ends(i)
                THEN CHOOSE i \in (h + 1)..Len(lines) :
                         Ends(i) /\ \A j \in (h + 1)..(i - 1) : ~Ends(j)
                ELSE Len(lines) + 1
    IN  IF h = 0 THEN <<>> ELSE SubSeq(lines, h + 1, stop - 1)

BulletsOf(lines) == LET IsBullet(l) == StartsWith(l, "- ") IN SelectSeq(lines, IsBullet)

RECURSIVE Flatten(_)
Flatten(seqs) == IF Len(seqs) = 0 THEN <<>> ELSE Head(seqs) \o Flatten(Tail(seqs))

\* The categories of noteSeq in the order in which each first occurs.
FirstSeen(noteSeq) ==
    LET IsFirst(i) == \A j \in 1..(i - 1) : noteSeq[j].category # noteSeq[i].category
        firsts == SelectSeq([i \in 1..Len(noteSeq) |-> i], IsFirst)
    IN  [k \in 1..Len(firsts) |-> noteSeq[firsts[k]].category]

\* The document of the report shown, once one has been generated.
Generated == report # NoReport

Doc == Lines(report.report_content)

\* ReportView offers Generate Report.
GenerateOffered == ~loading /\ activeTab = "report" /\ report = NoReport

TitleLine == "# College Visit Report: " \o visit.college_name

\* C1: for every visit and every sequence of notes and photos, whatever the
\* notes' category tags, createReport returns without throwing, and its text
\* is non-empty and holds the title line.
C1_ComposeTotal ==
    GenerateOffered =>
        LET composed == createReport(visit, photos, notes, Today)
        IN  /\ ~composed.threw
            /\ composed.text # ""
            /\ LineIndex(Lines(composed.text), TitleLine) # 0

\* The Detailed Observations section a stable grouping of noteSeq gives: per
\* category in first-seen order its heading, then its notes in input order.
StableObservations(noteSeq) ==
    LET cats == FirstSeen(noteSeq)
        Of(c) == LET In(n) == n.category = c IN SelectSeq(noteSeq, In)
        Block(c) == <<"### " \o CategoryTitle(c)>>
                    \o Flatten([i \in 1..Len(Of(c)) |-> NonBlank(Lines(Of(c)[i].content))])
    IN  Flatten([k \in 1..Len(cats) |-> Block(cats[k])])

\* C2: the Detailed Observations section has one subsection per distinct
\* category, in the order in which the categories first occur in the notes,
\* each holding its notes contiguously and in their input order, for every
\* category tag.
C2_StableGrouping ==
    Generated /\ Len(notes) > 0 =>
        NonBlank(Section(Doc, "## Detailed Observations")) = StableObservations(notes)

\* C3: with notes, Key Takeaways holds exactly one bullet per distinct
\* category of the notes, general and unmapped tags included.
C3_BulletPerCategory ==
    Generated /\ Len(notes) > 0 =>
        Len(BulletsOf(Section(Doc, "## Key Takeaways"))) = Len(FirstSeen(notes))

\* The category a Key Takeaways bullet speaks of, "?" for a bullet that is
\* none of the table's sentences.
BulletCategory(bullet) ==
    IF \E i \in 1..Len(keyPointTable) : bullet = "- " \o keyPointTable[i].value
    THEN keyPointTable[CHOOSE i \in 1..Len(keyPointTable) :
                           bullet = "- " \o keyPointTable[i].value].key
    ELSE "?"

\* The categories of the Key Takeaways bullets of the report shown, in order.
BulletCategories ==
    LET bullets == BulletsOf(Section(Doc, "## Key Takeaways"))
    IN  [i \in 1..Len(bullets) |-> BulletCategory(bullets[i])]

\* The place of a category in the select of the note form, 0 when not there.
Rank(category) ==
    IF category \in CategoryValues
    THEN CHOOSE i \in 1..Len(CATEGORIES) : CATEGORIES[i].value = category
    ELSE 0

NoteCategories == {notes[i].category : i \in 1..Len(notes)}

\* The first-seen categories that have a bullet.
FirstSeenWithBullet ==
    LET cats == BulletCategories
        HasBullet(c) == \E i \in 1..Len(cats) : cats[i] = c
    IN  SelectSeq(FirstSeen(notes), HasBullet)

\* C4, as claimed: the Key Takeaways bullets follow the order in which
\* their categories first occur in the notes.
C4_BulletsInFirstSeenOrder ==
    Generated /\ Len(notes) > 0 => BulletCategories = FirstSeenWithBullet

\* C4, amended: the Key Takeaways bullets of every composed document follow
\* the fixed order of the category table (academics, campus, facilities,
\* location, housing, financial, social), each bullet for a category of the
\* notes, whatever the order in which the categories first occur.
C4_BulletsInTableOrder ==
    Generated /\ Len(notes) > 0 =>
        LET cats == BulletCategories
        IN  /\ \A i \in 1..Len(cats) : cats[i] \in NoteCategories
            /\ \A i \in 1..Len(cats) : Rank(cats[i]) # 0
            /\ \A i, j \in 1..Len(cats) : i < j => Rank(cats[i]) < Rank(cats[j])

\* A report composed from notes whose categories first occur in another order
\* than the table's.
C4_Witness ==
    /\ Generated
    /\ LET cats == BulletCategories
       IN  Len(cats) >= 2 /\ cats # FirstSeenWithBullet

\* C5: with zero notes and zero photos, Key Takeaways is the fallback
\* sentence alone, and the document has neither a Detailed Observations nor a
\* Visual Documentation heading.
C5_MinimalDocument ==
    Generated /\ Len(notes) = 0 /\ Len(photos) = 0 =>
        LET doc == Doc
        IN  /\ NonBlank(Section(doc, "## Key Takeaways")) = <<FallbackSentence>>
            /\ LineIndex(doc, "## Detailed Observations") = 0
            /\ LineIndex(doc, "## Visual Documentation") = 0

C5_Witness ==
    /\ Generated /\ Len(notes) = 0 /\ Len(photos) = 0
    /\ LineIndex(Doc, "## Key Takeaways") # 0

\* The sentence of the Executive Summary, and the summary sentence of Visual
\* Documentation ("" when the section is absent).
SummaryOf(doc) == NonBlank(Section(doc, "## Executive Summary"))[1]

VisualOf(doc) ==
    LET body == NonBlank(Section(doc, "## Visual Documentation"))
    IN  IF Len(body) = 0 THEN "" ELSE body[1]

SummarySentence == SummaryOf(Doc)

VisualSentence == VisualOf(Doc)

\* C6: wherever the document counts photos or notes, the noun is singular
\* exactly when the count is 1, and plural when it is 0 or at least 2.
C6_CountNouns ==
    Generated =>
        LET p == ToString(Len(photos))
            n == ToString(Len(notes))
            doc == Doc
            summary == SummaryOf(doc)
            visual == VisualOf(doc)
        IN  /\ Includes(summary, "I took " \o p \o " photo and recorded ")
                  <=> Len(photos) = 1
            /\ Includes(summary, "I took " \o p \o " photos and recorded ")
                  <=> Len(photos) # 1
            /\ Includes(summary, "recorded " \o n \o " detailed note across ")
                  <=> Len(notes) = 1
            /\ Includes(summary, "recorded " \o n \o " detailed notes across ")
                  <=> Len(notes) # 1
            /\ Len(photos) > 0 =>
                  /\ StartsWith(visual, "I captured " \o p \o " photo during ")
                        <=> Len(photos) = 1
                  /\ StartsWith(visual, "I captured " \o p \o " photos during ")
                        <=> Len(photos) # 1

\* A report on one photo and one note, and reports on none and on two.
C6_Witness ==
    /\ Generated /\ Len(photos) = 1 /\ Len(notes) = 1
    /\ Includes(SummarySentence, "I took 1 photo and recorded 1 detailed note across ")
    /\ StartsWith(VisualSentence, "I captured 1 photo during ")

\* C7: the Executive Summary reports the number of distinct categories of
\* the notes, with the noun singular (category) when that number is one and
\* plural (categories) otherwise.
C7_CategoryNoun ==
    Generated =>
        LET k == Len(FirstSeen(notes))
        IN  EndsWith(SummarySentence,
                     " across " \o ToString(k) \o " different "
                     \o (IF k = 1 THEN "category" ELSE "categories") \o ".")

(***************************************************************************)
(* The lines of a text, found from the places of its line breaks.          *)
(***************************************************************************)
Breaks(text) == {i \in 1..Len(text) : SubSeq(text, i, i) = "\n"}

\* The place of the k-th line break of text
BreakAt(text, k) ==
    LET breaks == Breaks(text)
    IN  CHOOSE i \in breaks : Cardinality({j \in breaks : j < i}) = k - 1

\* The k-th line of text, k in 1..(number of line breaks + 1)
LineOf(text, k) ==
    LET first == IF k = 1 THEN 1 ELSE BreakAt(text, k - 1) + 1
        last == IF k = Cardinality(Breaks(text)) + 1 THEN Len(text)
                ELSE BreakAt(text, k) - 1
    IN  SubSeq(text, first, last)

RunTexts(runs) == [j \in 1..Len(runs) |-> runs[j].text]

\* Whether element e is what the rules make of line: the line can be read
\* back from the element (for a bold paragraph, only that the line is one).
MadeFrom(e, line) ==
    CASE e.kind = "h1" -> line = "# " \o e.text
      [] e.kind = "h2" -> line = "## " \o e.text
      [] e.kind = "h3" -> line = "### " \o e.text
      [] e.kind = "bold" -> StartsWith(line, "**") /\ EndsWith(line, "**")
      [] e.kind = "mixed" -> Join(RunTexts(e.runs), "**") = line
      [] e.kind = "li" -> line = "- " \o e.text
      [] e.kind = "hr" -> line = "---"
      [] e.kind = "br" -> \A i \in 1..Len(line) : SubSeq(line, i, i) \in WhiteSpace
      [] e.kind = "p" -> line = e.text
      [] OTHER -> FALSE

\* C8: for every document text shown, balanced or not, empty or composed,
\* the renderer gives exactly one element per line of the text, in the order
\* of the lines: as many elements as lines, the i-th made from the i-th line.
C8_OneElementPerLine ==
    Generated =>
        /\ Len(elements) = Cardinality(Breaks(report.report_content)) + 1
        /\ \A i \in 1..Len(elements) :
               /\ elements[i].key = i - 1
               /\ MadeFrom(elements[i], LineOf(report.report_content, i))

\* A text of several lines, one of them with an unmatched bold marker, shown.
C8_Witness ==
    /\ Generated
    /\ Len(elements) >= 2
    /\ \E i \in 1..Len(elements) :
           elements[i].kind = "mixed" /\ Len(elements[i].runs) % 2 = 0

\* C9: the text of every BoldParagraph is its line with the leading and the
\* trailing ** both stripped, down to the shortest such lines.
C9_BoldStripped ==
    Generated =>
        \A i \in 1..Len(elements) :
            elements[i].kind = "bold" =>
                LineOf(report.report_content, i) = "**" \o elements[i].text \o "**"

\* C10: the runs of every MixedParagraph are the fields of its line split on
\* **, in order, plain at even 0-based positions and bold at odd ones, so
\* that joining them with ** gives the line back; an odd number of markers
\* leaves a last, unmatched bold run.
C10_MixedRuns ==
    Generated =>
        /\ \A i \in 1..Len(elements) :
               elements[i].kind = "mixed" =>
                   LET runs == elements[i].runs
                   IN  /\ Len(runs) >= 2
                       /\ Join(RunTexts(runs), "**") = LineOf(report.report_content, i)
                       /\ \A j \in 1..Len(runs) :
                              /\ ~Includes(runs[j].text, "**")
                              /\ runs[j].bold <=> (j - 1) % 2 = 1
        /\ report.report_content = "a **b** c" =>
               elements[1].runs = << [bold |-> FALSE, text |-> "a "],
                                     [bold |-> TRUE, text |-> "b"],
                                     [bold |-> FALSE, text |-> " c"] >>
        /\ report.report_content = "- a **b" =>
               elements[1].runs = << [bold |-> FALSE, text |-> "- a "],
                                     [bold |-> TRUE, text |-> "b"] >>

\* The line a **b** c shown as a mixed paragraph.
C10_Witness ==
    /\ Generated
    /\ report.report_content = "a **b** c"
    /\ elements[1].kind = "mixed"
    /\ Len(elements[1].runs) = 3

(***************************************************************************)
(* The last three rules of the renderer.                                   *)
(***************************************************************************)
\* Whether the line matches one of the heading, bold, mixed or list rules.
EarlierRule(line) ==
    \/ StartsWith(line, "# ") \/ StartsWith(line, "## ") \/ StartsWith(line, "### ")
    \/ \E i \in 1..(Len(line) - 1) : SubSeq(line, i, i + 1) = "**"
    \/ StartsWith(line, "- ")

OnlyWhiteSpace(line) == \A i \in 1..Len(line) : SubSeq(line, i, i) \in WhiteSpace

\* C11: a line that matches none of the heading, bold, mixed and list rules
\* renders as a rule exactly when it is ---, as a line break exactly when it
\* is empty after trimming, and otherwise as a plain paragraph carrying the
\* line verbatim.
C11_LastRules ==
    Generated =>
        \A i \in 1..Len(elements) :
            LET line == LineOf(report.report_content, i)
                e == elements[i]
            IN  ~EarlierRule(line) =>
                    /\ e.kind \in {"hr", "br", "p"}
                    /\ e.kind = "hr" <=> line = "---"
                    /\ e.kind = "br" <=> OnlyWhiteSpace(line)
                    /\ e.kind = "p" => e.text = line

\* The text of a --- followed by a space and of an empty line, shown: a plain
\* paragraph and a line break.
C11_Witness ==
    /\ Generated
    /\ report.report_content = "--- \n"
    /\ Len(elements) = 2
    /\ elements[1].kind = "p" /\ elements[1].text = "--- "
    /\ elements[2].kind = "br"

(***************************************************************************)
(* The units of a composed document.                                       *)
(***************************************************************************)
\* C12: in every composed document the title, the location line, each note's
\* content paragraph and each photo caption bullet occupy exactly one line,
\* for every input, contents with line breaks included.
C12_SingleLineUnits ==
    Generated =>
        LET doc == Doc
        IN  /\ LineIndex(doc, TitleLine) = 1
            /\ visit.location # "" =>
                   LineIndex(doc, "**Location:** " \o visit.location) # 0
            /\ \A i \in 1..Len(notes) : LineIndex(doc, notes[i].content) # 0
            /\ \A i \in 1..Len(photos) :
                   photos[i].caption # "" =>
                       LineIndex(doc, "- " \o photos[i].caption) # 0
            /\ Len(notes) > 0 =>
                   Len(NonBlank(Section(doc, "## Detailed Observations")))
                       = Len(FirstSeen(notes)) + Len(notes)

SelectLabel(category) ==
    CATEGORIES[CHOOSE i \in 1..Len(CATEGORIES) : CATEGORIES[i].value = category].label

\* C14: the category table of the note form and the one of report composition
\* hold the same tags, and give every tag the same label: each note of the
\* visit is labelled in the form as it is headed in the report.
C14_TablesAgree ==
    /\ CategoryValues = {categoryTitles[i].key : i \in 1..Len(categoryTitles)}
    /\ \A i \in 1..Len(notes) :
           notes[i].category \in CategoryValues =>
               SelectLabel(notes[i].category) = CategoryTitle(notes[i].category)

(***************************************************************************)
(* Rendering again, and rendering line by line.                            *)
(***************************************************************************)
\* What an element shows: its kind and content, without its key.
Shown(e) == [kind |-> e.kind, text |-> e.text, runs |-> e.runs]

HasMarker(line) == \E i \in 1..(Len(line) - 1) : SubSeq(line, i, i + 1) = "**"

\* Whether the rule of the given number (1 Heading1 .. 9 PlainParagraph)
\* matches the line.
RuleMatches(rule, line) ==
    CASE rule = 1 -> Len(line) >= 2 /\ SubSeq(line, 1, 2) = "# "
      [] rule = 2 -> Len(line) >= 3 /\ SubSeq(line, 1, 3) = "## "
      [] rule = 3 -> Len(line) >= 4 /\ SubSeq(line, 1, 4) = "### "
      [] rule = 4 -> /\ Len(line) >= 2
                     /\ SubSeq(line, 1, 2) = "**"
                     /\ SubSeq(line, Len(line) - 1, Len(line)) = "**"
      [] rule = 5 -> HasMarker(line)
      [] rule = 6 -> Len(line) >= 2 /\ SubSeq(line, 1, 2) = "- "
      [] rule = 7 -> line = "---"
      [] rule = 8 -> OnlyWhiteSpace(line)
      [] rule = 9 -> TRUE

RuleKinds == <<"h1", "h2", "h3", "bold", "mixed", "li", "hr", "br", "p">>

\* The lowest-numbered rule that matches the line.
FirstRule(line) ==
    CHOOSE r \in 1..9 : RuleMatches(r, line) /\ \A q \in 1..(r - 1) : ~RuleMatches(q, line)

\* C16: the kind of every element is that of the lowest-numbered rule its
\* line matches; a line beginning with a heading marker is a heading whose
\* text is the remainder after the marker even when it holds **, and a line
\* beginning with "- " that holds ** is a mixed paragraph, not a list item.
C16_FirstMatchWins ==
    Generated =>
        \A i \in 1..Len(elements) :
            LET line == LineOf(report.report_content, i)
                e == elements[i]
            IN  /\ e.kind = RuleKinds[FirstRule(line)]
                /\ RuleMatches(1, line) =>
                       e.kind = "h1" /\ e.text = SubSeq(line, 3, Len(line))
                /\ ~RuleMatches(1, line) /\ RuleMatches(2, line) =>
                       e.kind = "h2" /\ e.text = SubSeq(line, 4, Len(line))
                /\ ~RuleMatches(1, line) /\ ~RuleMatches(2, line) /\ RuleMatches(3, line) =>
                       e.kind = "h3" /\ e.text = SubSeq(line, 5, Len(line))
                /\ RuleMatches(6, line) /\ HasMarker(line) /\ ~RuleMatches(4, line) =>
                       e.kind = "mixed"

\* The text of a heading that holds ** and of a list line that holds **,
\* shown: a Heading2 with the markers in its text, and a mixed paragraph.
C16_Witness ==
    /\ Generated
    /\ \/ /\ report.report_content = "## a **b**"
          /\ elements[1].kind = "h2" /\ elements[1].text = "a **b**"
       \/ /\ report.report_content = "- a **b"
          /\ elements[1].kind = "mixed"

(***************************************************************************)
(* The Detailed Observations section.                                      *)
(***************************************************************************)
\* The heading the claim expects for a category: the table's label for one of
\* the eight tags, the raw tag for any other.
ExpectedHeading(category) ==
    IF category \in CategoryValues
    THEN "### " \o categoryTitles[CHOOSE i \in 1..Len(categoryTitles) :
                                      categoryTitles[i].key = category].value
    ELSE "### " \o category

\* The lines of a subsection: those after its heading up to the next "### "
\* heading or the end of the section.
Subsection(section, heading) ==
    LET h == LineIndex(section, heading)
        Ends(i) == StartsWith(section[i], "### ")
        stop == IF \E i \in (h + 1)..Len(section) : Ends(i)
                THEN CHOOSE i \in (h + 1)..Len(section) :
                         Ends(i) /\ \A j \in (h + 1)..(i - 1) : ~Ends(j)
                ELSE Len(section) + 1
    IN  IF h = 0 THEN <<>> ELSE SubSeq(section, h + 1, stop - 1)

\* The content lines of the notes of a category, in input order.
ContentsOf(noteSeq, category) ==
    LET In(n) == n.category = category
        of == SelectSeq(noteSeq, In)
    IN  Flatten([i \in 1..Len(of) |-> NonBlank(Lines(of[i].content))])

ExpectedCaptionBullets(photoSeq) ==
    LET Captioned(p) == p.caption # ""
        captioned == SelectSeq(photoSeq, Captioned)
    IN  [i \in 1..Len(captioned) |-> "- " \o captioned[i].caption]

\* C18: a composed document has the Visual Documentation section exactly when
\* there are photos; in it, after the summary sentence, comes one bullet line
\* per photo with a non-empty caption, in the input order of the photos, and
\* nothing for the photos without one.
C18_VisualDocumentation ==
    Generated =>
        LET doc == Doc
            section == NonBlank(Section(doc, "## Visual Documentation"))
        IN  /\ LineIndex(doc, "## Visual Documentation") # 0 <=> Len(photos) > 0
            /\ Len(photos) > 0 =>
                   /\ Len(section) >= 1
                   /\ StartsWith(section[1], "I captured ")
                   /\ SubSeq(section, 2, Len(section)) = ExpectedCaptionBullets(photos)

\* A report composed from two photos of different captions.
C18_Witness ==
    /\ Generated
    /\ Len(photos) = 2
    /\ photos[1].caption = "Library" /\ photos[2].caption = "Main quad"
    /\ BulletsOf(Section(Doc, "## Visual Documentation")) = <<"- Library", "- Main quad">>

(***************************************************************************)
(* Generating after an edit.                                               *)
(***************************************************************************)
\* C19: the note list generateReport passes to createReport reflects the
\* store at generation time: whenever Generate Report is offered, every note
\* of the list has the category and the content of its row in the store, also
\* after an edit of the note was saved.
C19_EditedNotesReported ==
    GenerateOffered =>
        \A i \in 1..Len(notes) :
            \A j \in 1..Len(dbNotes) :
                dbNotes[j].id = notes[i].id =>
                    /\ notes[i].category = dbNotes[j].category
                    /\ notes[i].content = dbNotes[j].content

(***************************************************************************)
(* Failures of the store.                                                  *)
(***************************************************************************)
\* The rows and files of the store.
Store == <<dbNotes, dbPhotos, dbReports, files>>

\* C20: every failure of a store operation is surfaced as a failure of the
\* operation, and the handler it failed in re-attempts nothing and writes
\* nothing more to the store: a step of a handler in which an operation
\* failed ends with the failure alert and leaves the store as it was.
C20_FailuresSurfaced ==
    [][/\ \A typed \in TypedNotes :
              handleSaveNote(typed, FALSE) =>
                  alert' = "Failed to save note" /\ UNCHANGED Store
       /\ \A id \in 1..MaxId :
              handleDeleteNote(id, FALSE) =>
                  alert' = "Failed to delete note" /\ UNCHANGED Store
       /\ \A id \in 1..MaxId :
              handleDeletePhoto(id, FALSE) =>
                  alert' = "Failed to delete photo" /\ UNCHANGED Store
       /\ generateReport(FALSE) =>
              alert' = "Failed to generate report" /\ UNCHANGED Store
       /\ \A caption \in Captions, first \in UploadErrors, bucketOk \in BOOLEAN,
             retryOk \in BOOLEAN, insertOk \in BOOLEAN :
              handleUpload(caption, first, bucketOk, retryOk, insertOk) =>
                  /\ first # "none" =>
                         alert' = "Failed to upload photo" /\ UNCHANGED Store
                  /\ ~insertOk =>
                         alert' = "Failed to upload photo" /\ UNCHANGED dbPhotos]_vars

(***************************************************************************)
(* C21.  Reports are append-only and the newest is the one shown.          *)
(***************************************************************************)

\* Report rows are only ever appended: no step changes or removes a row.
ReportsAppendOnly ==
    [][/\ Len(dbReports') >= Len(dbReports)
       /\ \A k \in 1..Len(dbReports) : dbReports'[k] = dbReports[k]]_vars

\* C21: once the visit is loaded and no generation is awaited any more, the
\* report displayed is the most recently created report row of the visit.
C21_NewestReportShown ==
    (~loading /\ pending = <<>> /\ report # NoReport)
        => (Len(dbReports) > 0 /\ report = dbReports[Len(dbReports)])

(***************************************************************************)
(* C22.  The parts of a composed document come in a fixed order.           *)
(***************************************************************************)

\* The position of the first line that starts with prefix, 0 when none does.
PrefixIndex(lines, prefix) ==
    IF \E i \in 1..Len(lines) : StartsWith(lines[i], prefix)
    THEN CHOOSE i \in 1..Len(lines) :
             StartsWith(lines[i], prefix)
             /\ \A j \in 1..(i - 1) : ~StartsWith(lines[j], prefix)
    ELSE 0

\* The position of the last line equal to l, 0 when there is none.
LastLineIndex(lines, l) ==
    IF \E i \in 1..Len(lines) : lines[i] = l
    THEN CHOOSE i \in 1..Len(lines) :
             lines[i] = l /\ \A j \in (i + 1)..Len(lines) : lines[j] # l
    ELSE 0

\* The positions of the eleven parts in the document, in the order claimed:
\* 0 for a part that is absent.
PartPositions(doc) ==
    << LineIndex(doc, TitleLine),
       PrefixIndex(doc, "**Visit Date:** "),
       PrefixIndex(doc, "**Location:** "),
       LineIndex(doc, "---"),
       LineIndex(doc, "## Executive Summary"),
       LineIndex(doc, "## Detailed Observations"),
       LineIndex(doc, "## Visual Documentation"),
       LineIndex(doc, "## Key Takeaways"),
       LineIndex(doc, "## Next Steps"),
       LastLineIndex(doc, "---"),
       PrefixIndex(doc, "*Report generated on ") >>

AlwaysPresent == {1, 2, 4, 5, 8, 9, 10, 11}

\* C22: in every composed document the parts present come in the order title,
\* visit date, location, rule, Executive Summary, Detailed Observations,
\* Visual Documentation, Key Takeaways, Next Steps, footer rule, generated-on
\* line; the title (the first line), the visit date, the first rule, Executive
\* Summary, Key Takeaways, Next Steps and the footer (the rule and, as the
\* last line written, the generated-on line) are there whatever the input.
C22_FixedOrder ==
    Generated =>
        LET doc == Doc
            at == <<>> \o PartPositions(doc)
            full == NonBlank(doc)
        IN  /\ \A k \in AlwaysPresent : at[k] > 0
            /\ at[1] = 1
            /\ full[Len(full)] = doc[at[11]]
            /\ \A j, k \in 1..Len(at) : (j < k /\ at[j] > 0 /\ at[k] > 0) => at[j] < at[k]
            /\ at[3] > 0 <=> visit.location # ""
            /\ at[6] > 0 <=> Len(notes) > 0
            /\ at[7] > 0 <=> Len(photos) > 0

\* A document composed with every part present.
C22_Witness ==
    /\ Generated
    /\ \A k \in 1..11 : PartPositions(Doc)[k] > 0

(***************************************************************************)
(* C23.  One report generation at a time.                                  *)
(***************************************************************************)

\* The generations in flight: generateReport started, its insert not yet
\* answered to it.
InFlight == {i \in 1..Len(pending) : pending[i].op = "generate"}

\* Generate Report can be clicked.
GenerateEnabled == GenerateOffered /\ ~generating

\* C23: at most one report generation is in flight at any time, and while one
\* is in flight Generate Report cannot be started.
C23_OneGenerationInFlight ==
    /\ Cardinality(InFlight) <= 1
    /\ InFlight # {} => ~GenerateEnabled

(***************************************************************************)
(* C24.  The lists of VisitDetail after overlapping adds and deletes.      *)
(***************************************************************************)
IdsOf(rows) == {rows[i].id : i \in 1..Len(rows)}

\* C24: once every add and delete of notes and photos has completed, all of
\* them successfully, the lists VisitDetail holds contain exactly the ids of
\* the note and photo rows in the store, each once.
C24_ListsMatchStore ==
    pending = <<>> =>
        /\ IdsOf(notes) = IdsOf(dbNotes) /\ Len(notes) = Len(dbNotes)
        /\ IdsOf(photos) = IdsOf(dbPhotos) /\ Len(photos) = Len(dbPhotos)

(***************************************************************************)
(* C25.  User text and the structure of the rendered document.             *)
(***************************************************************************)
SectionHeadings ==
    {"Executive Summary", "Detailed Observations", "Visual Documentation",
     "Key Takeaways", "Next Steps"}

KindCount(kind) == Cardinality({i \in 1..Len(elements) : elements[i].kind = kind})

RendersAs(kind, text) ==
    \E i \in 1..Len(elements) : elements[i].kind = kind /\ elements[i].text = text

\* C25: the rendering of a composed document has exactly one h1, the title;
\* every h2 is one of the composer's five section headings; every note's
\* content is rendered as a plain paragraph and every caption as a list item.
C25_NoForgedStructure ==
    Generated =>
        /\ KindCount("h1") = 1
        /\ RendersAs("h1", "College Visit Report: " \o visit.college_name)
        /\ \A i \in 1..Len(elements) :
               elements[i].kind = "h2" => elements[i].text \in SectionHeadings
        /\ \A k \in 1..Len(notes) : RendersAs("p", notes[k].content)
        /\ \A k \in 1..Len(photos) :
               photos[k].caption # "" => RendersAs("li", photos[k].caption)

(***************************************************************************)
(* C26.  A photo row only for a file that was stored.                      *)
(***************************************************************************)

\* C26: every photo row of the store, and every photo of the gallery, names a
\* file that was stored in the object store: no row is created and no photo
\* added when no upload succeeded.
C26_RowsHaveFiles ==
    /\ \A k \in 1..Len(dbPhotos) : dbPhotos[k].photo_url \in files
    /\ \A k \in 1..Len(photos) : photos[k].photo_url \in files

(***************************************************************************)
(* C27.  The busy flags come back.                                         *)
(***************************************************************************)

\* C27: whenever generating, saving or uploading is true, all three are false
\* later, whether the store call succeeds or fails, given that every call
\* awaited resolves: no state leaves Generate Report, Save Note or Upload
\* disabled for ever.
C27_BusyFlagsReturn ==
    (generating \/ saving \/ uploading) ~> (~generating /\ ~saving /\ ~uploading)

\* A generation whose insert failed has been resumed: the flag is false and
\* Generate Report can be clicked again.
C27_Witness ==
    /\ alert = "Failed to generate report"
    /\ pending = <<>>
    /\ GenerateEnabled

====
